---- MODULE Spec2Model ----
(***************************************************************************)
(* A model of scrape_threats.py: the date-filtered listing of advisories,  *)
(* the extraction of an article's body text, the two-tier summary          *)
(* (abstractive, then extractive fallback) and the driver loop of main.    *)
(*                                                                         *)
(* Strings are sequences of one-character strings, so that len(), slicing, *)
(* strip(), startswith(), rsplit() and re.search() are computed on the     *)
(* characters. A parsed page is a sequence of nodes in document order,     *)
(* each with the index of its parent (0: a child of the document root).    *)
(***************************************************************************)
EXTENDS Integers, Sequences, FiniteSets, TLC

(***************************************************************************)
(* Bounds of the model (not program constants).                            *)
(***************************************************************************)
\* blocks in the body of a generated article page (one call of get_article_summary)
MaxBlocks == 2
\* teaser items on a generated listing page (extract_articles_by_date alone)
MaxItems == 2
\* teaser items on the listing page of a whole run of main
MaxArticles == 2
\* blocks in the body of the article pages of a whole run of main
MaxRunBlocks == 1

(***************************************************************************)
(* Program constants.                                                      *)
(***************************************************************************)
min_summary_input_length == 100
max_chars == 500

(***************************************************************************)
(* Strings.                                                                *)
(***************************************************************************)
Min(a, b) == IF a < b THEN a ELSE b

\* F(x), with x evaluated once however often F refers to it
With(x, F(_)) == CHOOSE r \in {F(v) : v \in {x}} : TRUE

Rep(c, n) == [k \in 1..n |-> c]

RECURSIVE Words(_, _)
\* k words of w letters "x", separated by single spaces
Words(k, w) == IF k <= 1 THEN Rep("x", w) ELSE Words(k - 1, w) \o <<" ">> \o Rep("x", w)

UpperCase == <<"A","B","C","D","E","F","G","H","I","J","K","L","M","N","O","P","Q","R","S","T","U","V","W","X","Y","Z">>
LowerCase == <<"a","b","c","d","e","f","g","h","i","j","k","l","m","n","o","p","q","r","s","t","u","v","w","x","y","z">>

\* the upper-case form of a lower-case letter, any other character unchanged
Upper(c) == IF \E k \in 1..26 : LowerCase[k] = c
            THEN UpperCase[CHOOSE k \in 1..26 : LowerCase[k] = c]
            ELSE c

Whitespace == {" ", "\n", "\t"}

RECURSIVE LStrip(_)
LStrip(s) == IF s # <<>> /\ Head(s) \in Whitespace THEN LStrip(Tail(s)) ELSE s

RECURSIVE RStrip(_)
RStrip(s) == IF s # <<>> /\ s[Len(s)] \in Whitespace THEN RStrip(SubSeq(s, 1, Len(s) - 1)) ELSE s

\* str.strip()
Strip(s) == RStrip(LStrip(s))

\* s[:n]
Prefix(s, n) == SubSeq(s, 1, Min(n, Len(s)))

\* s.startswith(p)
StartsWith(s, p) == Len(s) >= Len(p) /\ \A k \in 1..Len(p) : s[k] = p[k]

\* the text ends with the suffix
EndsWith(s, p) == Len(s) >= Len(p) /\ \A k \in 1..Len(p) : s[Len(s) - Len(p) + k] = p[k]

\* the lower-case literal phrase pat matches s at position k, case ignored
MatchesAt(pat, s, k) ==
    /\ k + Len(pat) - 1 <= Len(s)
    /\ \A j \in 1..Len(pat) : s[k + j - 1] = pat[j] \/ s[k + j - 1] = Upper(pat[j])

\* s.rsplit(' ', 1)[0]: what precedes the last space, or all of s without one
RSplitHead(s) ==
    IF \E k \in 1..Len(s) : s[k] = " "
    THEN LET last == CHOOSE k \in 1..Len(s) : s[k] = " " /\ \A j \in (k + 1)..Len(s) : s[j] # " "
         IN  SubSeq(s, 1, last - 1)
    ELSE s

RECURSIVE Join(_, _)
\* sep.join(parts)
Join(parts, sep) ==
    IF parts = <<>> THEN <<>>
    ELSE IF Len(parts) = 1 THEN parts[1]
    ELSE parts[1] \o sep \o Join(Tail(parts), sep)

Ellipsis == <<".",".",".">>
NoFetchSummary == <<"N","o"," ","s","u","m","m","a","r","y"," ","a","v","a","i","l","a","b","l","e"," ","(","c","o","u","l","d"," ","n","o","t"," ","f","e","t","c","h"," ","c","o","n","t","e","n","t",")",".">>
NoFallbackSummary == <<"N","o"," ","s","u","m","m","a","r","y"," ","a","v","a","i","l","a","b","l","e"," ","(","e","x","t","r","a","c","t","i","v","e"," ","f","a","l","l","b","a","c","k",")",".">>

(***************************************************************************)
(* Parsed pages.                                                           *)
(***************************************************************************)
Elem(tag, cls, id, parent) ==
    [kind |-> "elem", tag |-> tag, cls |-> cls, id |-> id, parent |-> parent, s |-> <<>>]

Txt(s, parent) ==
    [kind |-> "text", tag |-> "", cls |-> {}, id |-> "", parent |-> parent, s |-> s]

RECURSIVE Ancestors(_, _)
\* element.parents, nearest first (the document root itself carries no class)
Ancestors(nodes, n) ==
    IF nodes[n].parent = 0 THEN <<>>
    ELSE <<nodes[n].parent>> \o Ancestors(nodes, nodes[n].parent)

Range(f) == {f[k] : k \in DOMAIN f}

IsUnder(nodes, n, e) == e \in Range(Ancestors(nodes, n))

\* for script_or_style in soup(['script', 'style']): script_or_style.decompose()
Decompose(parsed) ==
    With(parsed,
         LAMBDA nodes :
            [n \in 1..Len(nodes) |->
                IF \E a \in {n} \cup Range(Ancestors(nodes, n)) :
                      nodes[a].tag \in {"script", "style"}
                THEN [nodes[n] EXCEPT !.kind = "gone", !.tag = "", !.cls = {}, !.id = "",
                                      !.s = <<>>]
                ELSE nodes[n]] \o <<>>)

RECURSIVE TextFrom(_, _, _)
\* the stripped, non-empty strings under element e from node n on, concatenated
TextFrom(nodes, e, n) ==
    IF n > Len(nodes) THEN <<>>
    ELSE IF nodes[n].kind = "text" /\ IsUnder(nodes, n, e)
         THEN Strip(nodes[n].s) \o TextFrom(nodes, e, n + 1)
         ELSE TextFrom(nodes, e, n + 1)

\* element.get_text(strip=True)
GetText(nodes, e) == TextFrom(nodes, e, e + 1)

\* the text nodes whose characters element.get_text(strip=True) returns
TextNodesOf(nodes, e) ==
    {n \in 1..Len(nodes) :
        nodes[n].kind = "text" /\ IsUnder(nodes, n, e) /\ Strip(nodes[n].s) # <<>>}

(***************************************************************************)
(* get_article_summary: the content region.                                *)
(***************************************************************************)
Selector(tag, cls, id) == [tag |-> tag, cls |-> cls, id |-> id]

\* ranked, most specific first
content_selectors ==
    << Selector("div", {"l-page-section_content"}, ""),
       Selector("div", {"l-page-section", "l-page-section--rich-text"}, ""),
       Selector("div", {"layout__region--content"}, ""),
       Selector("div", {"field--name-body"}, ""),
       Selector("div", {"node__content"}, ""),
       Selector("article", {"c-article__body"}, ""),
       Selector("main", {}, "main") >>

Matches(node, sel) ==
    /\ node.kind = "elem"
    /\ node.tag = sel.tag
    /\ sel.cls \subseteq node.cls
    /\ (sel.id = "" \/ node.id = sel.id)

\* soup.select_one(selector): the first match in document order, 0 for None
SelectOne(nodes, sel) ==
    IF \E n \in 1..Len(nodes) : Matches(nodes[n], sel)
    THEN CHOOSE n \in 1..Len(nodes) :
            Matches(nodes[n], sel) /\ \A m \in 1..(n - 1) : ~Matches(nodes[m], sel)
    ELSE 0

\* the first selector of the ranked list that matches decides; 0 for None
ContentContainer(nodes) ==
    IF \E r \in 1..Len(content_selectors) : SelectOne(nodes, content_selectors[r]) # 0
    THEN LET first == CHOOSE r \in 1..Len(content_selectors) :
                        /\ SelectOne(nodes, content_selectors[r]) # 0
                        /\ \A q \in 1..(r - 1) : SelectOne(nodes, content_selectors[q]) = 0
         IN  SelectOne(nodes, content_selectors[first])
    ELSE 0

(***************************************************************************)
(* get_article_summary: the boilerplate filter and the text extraction.    *)
(***************************************************************************)
TextTags == {"p", "h1", "h2", "h3", "h4", "h5", "h6", "li", "strong", "em"}

\* the class names the pattern of irrelevant_parent_classes matches
irrelevant_parent_classes ==
    {"c-site-footer", "c-site-header", "c-site-nav", "view__filters",
     "share-buttons", "contact-info", "related-links"}

\* the walk over element.parents
IsIrrelevantParent(nodes, e) ==
    \E a \in Range(Ancestors(nodes, e)) : nodes[a].cls \cap irrelevant_parent_classes # {}

boilerplate_text_patterns ==
    << <<"r","e","p","o","r","t"," ","a"," ","c","y","b","e","r"," ","i","s","s","u","e">>,
       <<"s","e","c","u","r","e"," ","b","y"," ","d","e","s","i","g","n">>,
       <<"s","e","c","u","r","e"," ","o","u","r"," ","w","o","r","l","d">>,
       <<"s","h","i","e","l","d","s"," ","u","p">>,
       <<"p","r","i","v","a","c","y"," ","p","o","l","i","c","y">>,
       <<"a","c","c","e","s","s","i","b","i","l","i","t","y">>,
       <<"s","i","t","e","m","a","p">>,
       <<"f","r","e","e"," ","c","y","b","e","r"," ","s","e","r","v","i","c","e","s">>,
       <<"l","a","s","t"," ","u","p","d","a","t","e","d">>,
       <<"s","h","a","r","e"," ","t","h","i","s"," ","p","a","g","e">>,
       <<"c","o","n","t","a","c","t"," ","u","s">>,
       <<"p","r","e","s","s"," ","r","e","l","e","a","s","e">>,
       <<"d","i","s","c","l","a","i","m","e","r">> >>

\* the characters a pattern can start with
PatternHeads ==
    UNION {{boilerplate_text_patterns[k][1], Upper(boilerplate_text_patterns[k][1])} :
              k \in 1..Len(boilerplate_text_patterns)}

\* any(re.search(pattern, text_content, re.IGNORECASE) for pattern in boilerplate_text_patterns)
HasBoilerplateText(text) ==
    \E k \in 1..Len(text) :
        /\ text[k] \in PatternHeads
        /\ \E n \in 1..Len(boilerplate_text_patterns) :
              MatchesAt(boilerplate_text_patterns[n], text, k)

\* the condition under which an element's text is appended
IsKept(nodes, e) ==
    /\ ~IsIrrelevantParent(nodes, e)
    /\ With(GetText(nodes, e),
            LAMBDA text_content : text_content # <<>> /\ ~HasBoilerplateText(text_content))

\* content_container.find_all([...]): the descendants with one of the tags (0: the whole page)
FindAll(nodes, c, tags) ==
    SelectSeq([n \in 1..Len(nodes) |-> n],
              LAMBDA n : /\ nodes[n].kind = "elem"
                         /\ nodes[n].tag \in tags
                         /\ (c = 0 \/ IsUnder(nodes, n, c)))

RECURSIVE AppendKept(_, _, _)
\* the loop over the text-bearing elements: text_content + " " for each one kept
AppendKept(nodes, elements, k) ==
    IF k > Len(elements) THEN <<>>
    ELSE IF IsKept(nodes, elements[k])
         THEN GetText(nodes, elements[k]) \o <<" ">> \o AppendKept(nodes, elements, k + 1)
         ELSE AppendKept(nodes, elements, k + 1)

\* a variant: the extraction runs over the whole page when no region was found
ExtractText_WholePage(nodes, c) ==
    Strip(AppendKept(nodes, FindAll(nodes, c, TextTags), 1))

\* full_article_text as it stands when the length check is made
ExtractText(nodes, c) ==
    IF c # 0 THEN Strip(AppendKept(nodes, FindAll(nodes, c, TextTags), 1)) ELSE <<>>

\* the text nodes whose characters were appended to full_article_text
ExtractSources(nodes, c) ==
    IF c # 0
    THEN UNION {TextNodesOf(nodes, e) : e \in {x \in Range(FindAll(nodes, c, TextTags)) : IsKept(nodes, x)}}
    ELSE {}

(***************************************************************************)
(* get_article_summary: the extractive fallback.                           *)
(***************************************************************************)
\* content_container if content_container else soup
FallbackContentSource(c) == c

RECURSIVE SummaryParts(_, _, _, _)
\* the loop over the paragraph texts: summary_parts when the loop ends or breaks
SummaryParts(paragraphs, k, parts, char_count) ==
    IF k > Len(paragraphs) THEN parts
    ELSE LET paragraph_text == paragraphs[k]
         IN  IF paragraph_text # <<>> /\ char_count + Len(paragraph_text) < max_chars
             THEN SummaryParts(paragraphs, k + 1, Append(parts, paragraph_text),
                               char_count + Len(paragraph_text))
             ELSE IF paragraph_text # <<>>
             THEN LET remaining_chars == max_chars - char_count
                  IN  IF remaining_chars > 0
                      THEN With(Prefix(paragraph_text, remaining_chars),
                                LAMBDA cut : Append(parts, RSplitHead(cut) \o Ellipsis))
                      ELSE parts
             ELSE SummaryParts(paragraphs, k + 1, parts, char_count)

\* " ".join(summary_parts) if summary_parts else the sentinel
ExtractiveSummary(paragraphs) ==
    With(SummaryParts(paragraphs, 1, <<>>, 0),
         LAMBDA parts : IF parts # <<>> THEN Join(parts, <<" ">>) ELSE NoFallbackSummary)

\* [p.get_text(strip=True) for p in fallback_content_source.find_all('p')]
ParagraphTexts(nodes, c) ==
    With(FindAll(nodes, FallbackContentSource(c), {"p"}),
         LAMBDA ps : [k \in 1..Len(ps) |-> GetText(nodes, ps[k])] \o <<>>)

(***************************************************************************)
(* The article pages a fetch can return: a layout (which elements wrap the *)
(* body) and a sequence of blocks. A block is a sequence of nodes whose    *)
(* parent is counted within the block (0: the element that hosts the       *)
(* blocks).                                                                *)
(***************************************************************************)
ShortText == Words(2, 5)
MidText == Words(12, 8)
NearText == Words(45, 10)
SolidText == Words(1, 600)
LongText == Words(60, 9)
FooterText == <<"P","r","i","v","a","c","y"," ","P","o","l","i","c","y"," ","|"," ","A","c","c","e","s","s","i","b","i","l","i","t","y"," ","|"," ","S","i","t","e","m","a","p">>
UpdatedText == <<"L","a","s","t"," ","U","p","d","a","t","e","d"," ","J","u","n","e">>
ShareText == <<"S","h","a","r","e">>
ScriptText == <<"v","a","r"," ","x",";">>

BlockNames ==
    {"pShort", "pMid", "pNear", "pSolid", "pLong", "pEmpty", "footer", "pShare", "h2Mid"}

BlockNodes(b) ==
    CASE b = "pShort"   -> << Elem("p", {}, "", 0), Txt(ShortText, 1) >>
      [] b = "pMid"     -> << Elem("p", {}, "", 0), Txt(<<"\n">> \o MidText \o <<"\n">>, 1) >>
      [] b = "pNear"    -> << Elem("p", {}, "", 0), Txt(NearText, 1) >>
      [] b = "pSolid"   -> << Elem("p", {}, "", 0), Txt(SolidText, 1) >>
      [] b = "pLong"    -> << Elem("p", {}, "", 0), Txt(LongText, 1) >>
      [] b = "pEmpty"   -> << Elem("p", {}, "", 0), Txt(<<"\n", " ">>, 1) >>
      [] b = "footer"   -> << Elem("div", {"c-site-footer"}, "", 0),
                              Elem("p", {}, "", 1), Txt(FooterText, 2) >>
      [] b = "pShare"   -> << Elem("p", {}, "", 0), Txt(MidText \o <<" ">>, 1),
                              Elem("span", {"share-buttons"}, "", 1),
                              Elem("strong", {}, "", 3), Txt(ShareText, 4) >>
      [] b = "h2Mid"    -> << Elem("h2", {}, "", 0), Txt(MidText, 1) >>

LayoutNames == {"plain", "content", "nested"}

\* the wrapping elements of a layout; the blocks go under its last element
LayoutNodes(l) ==
    CASE l = "plain"   -> << Elem("div", {"l-page-section"}, "", 0) >>
      [] l = "content" -> << Elem("div", {"l-page-section_content"}, "", 0) >>
      [] l = "nested"  -> << Elem("main", {}, "main", 0),
                             Elem("p", {}, "", 1), Txt(UpdatedText, 2),
                             Elem("script", {}, "", 2), Txt(ScriptText, 4),
                             Elem("div", {"field--name-body"}, "", 1) >>

\* the nodes of a block placed under element `host`, after `offset` nodes
Placed(block, host, offset) ==
    [k \in 1..Len(block) |->
        [block[k] EXCEPT !.parent = IF block[k].parent = 0 THEN host ELSE block[k].parent + offset]]

RECURSIVE PlaceBlocks(_, _, _)
PlaceBlocks(nodes, host, blocks) ==
    IF blocks = <<>> THEN nodes
    ELSE PlaceBlocks(nodes \o Placed(BlockNodes(Head(blocks)), host, Len(nodes)), host, Tail(blocks))

\* BeautifulSoup(response.text, 'html.parser') of the page
Parse(page) ==
    PlaceBlocks(LayoutNodes(page.layout), Len(LayoutNodes(page.layout)), page.blocks)

Pages(n) ==
    {[layout |-> l, blocks |-> bs] :
        l \in LayoutNames, bs \in UNION {[1..k -> BlockNames] : k \in 0..n}}

NoPage == [layout |-> "none", blocks |-> <<>>]

\* lines 134-189 on a fetched page: the content region (0: None) and full_article_text
Extracted(fetched) ==
    With(Decompose(Parse(fetched)),
         LAMBDA soup : With(ContentContainer(soup),
                            LAMBDA container : [container |-> container,
                                                text |-> ExtractText(soup, container)]))

\* a fallback block on a fetched page: the value it returns
FallbackSummary(fetched) ==
    With(Decompose(Parse(fetched)),
         LAMBDA soup : With(ParagraphTexts(soup, ContentContainer(soup)),
                            LAMBDA paragraphs : ExtractiveSummary(paragraphs)))

(***************************************************************************)
(* extract_articles_by_date: dates. A timestamp or a date text is a        *)
(* sequence of tokens (digit groups, month names, punctuation); a date is  *)
(* <<year, month, day>>, and <<>> stands for a ValueError.                 *)
(***************************************************************************)
FourDigits == {"2025"}
TwoDigits == {"05", "06", "09", "10", "11"}
Digits == TwoDigits \cup {"9"}

Number(tok) ==
    CASE tok = "2025" -> 2025
      [] tok = "05" -> 5
      [] tok = "06" -> 6
      [] tok \in {"09", "9"} -> 9
      [] tok = "10" -> 10
      [] tok = "11" -> 11
      [] OTHER -> 0

AbbreviatedMonth(tok) == CASE tok = "May" -> 5 [] tok = "Jun" -> 6 [] OTHER -> 0
FullMonth(tok) == CASE tok = "May" -> 5 [] tok = "June" -> 6 [] OTHER -> 0

UtcOffsets == {"+00:00", "-05:00"}

\* published_date_iso.replace('Z', '+00:00')
ReplaceZ(tokens) == [k \in 1..Len(tokens) |-> IF tokens[k] = "Z" THEN "+00:00" ELSE tokens[k]]

\* datetime.fromisoformat(s).date(): YYYY-MM-DD, then optionally T, a time and a numeric offset
FromIsoFormatDate(tokens) ==
    IF /\ Len(tokens) \in {5, 7, 8}
       /\ tokens[1] \in FourDigits /\ tokens[2] = "-" /\ tokens[3] \in TwoDigits
       /\ tokens[4] = "-" /\ tokens[5] \in TwoDigits
       /\ (Len(tokens) >= 7 => tokens[6] = "T" /\ tokens[7] \in {"12:00:00", "23:30:00"})
       /\ (Len(tokens) = 8 => tokens[8] \in UtcOffsets)
    THEN <<Number(tokens[1]), Number(tokens[3]), Number(tokens[5])>>
    ELSE <<>>

\* datetime.strptime(s, "%b %d, %Y").date()
StrptimeAbbreviated(tokens) ==
    IF /\ Len(tokens) = 6
       /\ AbbreviatedMonth(tokens[1]) # 0 /\ tokens[2] = " " /\ tokens[3] \in Digits
       /\ tokens[4] = "," /\ tokens[5] = " " /\ tokens[6] \in FourDigits
    THEN <<Number(tokens[6]), AbbreviatedMonth(tokens[1]), Number(tokens[3])>>
    ELSE <<>>

\* datetime.strptime(target_date_str, "%B %d, %Y").date()
StrptimeFull(tokens) ==
    IF /\ Len(tokens) = 6
       /\ FullMonth(tokens[1]) # 0 /\ tokens[2] = " " /\ tokens[3] \in Digits
       /\ tokens[4] = "," /\ tokens[5] = " " /\ tokens[6] \in FourDigits
    THEN <<Number(tokens[6]), FullMonth(tokens[1]), Number(tokens[3])>>
    ELSE <<>>

\* a variant: an attribute that does not parse skips the item, the text is not tried
PublishedDate_NoTextFallback(item) ==
    IF item.datetime # <<>>
    THEN FromIsoFormatDate(ReplaceZ(item.datetime))
    ELSE StrptimeAbbreviated(Strip(item.text))

\* the date of a teaser's <time> tag, <<>> when the item is skipped for its date
PublishedDate(item) ==
    IF item.datetime # <<>>
    THEN IF FromIsoFormatDate(ReplaceZ(item.datetime)) # <<>>
         THEN FromIsoFormatDate(ReplaceZ(item.datetime))
         ELSE StrptimeAbbreviated(Strip(item.text))
    ELSE StrptimeAbbreviated(Strip(item.text))

(***************************************************************************)
(* extract_articles_by_date: links.                                        *)
(***************************************************************************)
main_cisa_url == <<"h","t","t","p","s",":","/","/","w","w","w",".","c","i","s","a",".","g","o","v","/","n","e","w","s","-","e","v","e","n","t","s","/","c","y","b","e","r","s","e","c","u","r","i","t","y","-","a","d","v","i","s","o","r","i","e","s">>

\* the URL names its scheme: it is absolute
HasScheme(url) ==
    \E k \in 2..Len(url) : url[k] = ":" /\ \A j \in 1..(k - 1) : url[j] \notin {"/", ":", "?", "#"}

\* scheme://host of an absolute URL
Origin(url) ==
    LET slashes == {k \in 1..Len(url) : url[k] = "/"}
        third == {k \in slashes : Cardinality({j \in slashes : j < k}) = 2}
    IN  IF third = {} THEN url ELSE SubSeq(url, 1, (CHOOSE k \in third : TRUE) - 1)

\* the URL up to and including the last "/" of its path
Directory(url) ==
    LET path == {k \in (Len(Origin(url)) + 1)..Len(url) : url[k] = "/"}
    IN  IF path = {} THEN Origin(url) \o <<"/">>
        ELSE SubSeq(url, 1, CHOOSE k \in path : \A j \in path : j <= k)

\* requests.compat.urljoin(base, url)
UrlJoin(base, url) ==
    IF HasScheme(url) THEN url
    ELSE IF url # <<>> /\ url[1] = "/" THEN Origin(base) \o url
    ELSE Directory(base) \o url

\* if not article_url.startswith('http'): article_url = urljoin(main_url, article_url)
ArticleUrl(main_url, href) ==
    IF ~StartsWith(href, <<"h","t","t","p">>) THEN UrlJoin(main_url, href) ELSE href

(***************************************************************************)
(* extract_articles_by_date: the loop over the teasers.                    *)
(***************************************************************************)
RECURSIVE ArticlesFound(_, _, _, _)
\* articles_found after the items from k on
ArticlesFound(main_url, items, target, k) ==
    IF k > Len(items) THEN <<>>
    ELSE LET item == items[k]
             rest == ArticlesFound(main_url, items, target, k + 1)
         IN  IF ~item.has_link THEN rest
             ELSE IF ~item.has_time THEN rest
             ELSE IF PublishedDate(item) = <<>> THEN rest
             ELSE IF PublishedDate(item) = target
                  THEN <<[title |-> item.title, url |-> ArticleUrl(main_url, item.href)]>> \o rest
                  ELSE rest

\* the function's result; soup.ok is FALSE when fetch_page_content returned None
ExtractArticlesByDate(main_url, target_date_str, soup) ==
    IF ~soup.ok THEN <<>>
    ELSE IF soup.items = <<>> THEN <<>>
    ELSE ArticlesFound(main_url, soup.items, StrptimeFull(target_date_str), 1)

(***************************************************************************)
(* The listing pages a fetch can return.                                   *)
(***************************************************************************)
Hrefs ==
    { <<"h","t","t","p","s",":","/","/","w","w","w",".","c","i","s","a",".","g","o","v","/","a","1">>,
      <<"/","n","e","w","s","/","a","2">>,
      <<"h","t","t","p","-","a","d","v","i","s","o","r","i","e","s","/","a","3">> }

Datetimes ==
    { <<>>,
      <<"tbd">>,
      <<"2025", "-", "06", "-", "10", "T", "12:00:00", "Z">>,
      <<"2025", "-", "06", "-", "09", "T", "23:30:00", "-05:00">>,
      <<"2025", "-", "06", "-", "10">> }

DateTexts ==
    { <<" ", "Jun", " ", "10", ",", " ", "2025", "\n">>,
      <<"Jun", " ", "09", ",", " ", "2025">>,
      <<"June", " ", "10", ",", " ", "2025">> }

TargetDates ==
    { <<"June", " ", "10", ",", " ", "2025">>, <<"June", " ", "9", ",", " ", "2025">> }

\* the teasers, but for their titles
Teasers ==
    {[has_link |-> FALSE, href |-> <<>>, has_time |-> FALSE, datetime |-> <<>>, text |-> <<>>]}
    \cup {[has_link |-> TRUE, href |-> h, has_time |-> FALSE, datetime |-> <<>>, text |-> <<>>] :
            h \in Hrefs}
    \cup {[has_link |-> TRUE, href |-> h, has_time |-> TRUE, datetime |-> d, text |-> x] :
            h \in Hrefs, d \in Datetimes, x \in DateTexts}

\* a teaser's title tells its place on the page
Titled(teasers) ==
    [k \in 1..Len(teasers) |->
        [title |-> k, has_link |-> teasers[k].has_link, href |-> teasers[k].href,
         has_time |-> teasers[k].has_time, datetime |-> teasers[k].datetime,
         text |-> teasers[k].text]]

Listings(pool, n) ==
    {[ok |-> FALSE, items |-> <<>>]}
    \cup {[ok |-> TRUE, items |-> Titled(ts)] : ts \in UNION {[1..k -> pool] : k \in 0..n}}

\* the teasers of the listing page of a whole run: dated on or off the target day
RunTeasers ==
    {[has_link |-> TRUE, href |-> h, has_time |-> TRUE, datetime |-> d, text |-> <<>>] :
        h \in { <<"/","n","e","w","s","/","a","2">> },
        d \in { <<"2025", "-", "06", "-", "10", "T", "12:00:00", "Z">>,
                <<"2025", "-", "06", "-", "09", "T", "23:30:00", "-05:00">> }}
    \cup {[has_link |-> TRUE,
           href |-> <<"h","t","t","p","-","a","d","v","i","s","o","r","i","e","s","/","a","3">>,
           has_time |-> TRUE, datetime |-> <<>>,
           text |-> <<"Jun", " ", "10", ",", " ", "2025">>]}

(***************************************************************************)
(* The abstractive summarizer, as the code sees it.                        *)
(***************************************************************************)
\* what summarizer_pipeline(...)[0]['summary_text'] can do: return a text, or raise
\* (the call itself, or the indexing of a malformed result)
SummarizerOutcomes == {"summary_text", "RuntimeError", "IndexError", "KeyError", "TypeError"}

GeneratedSummary == <<"G","e","n","e","r","a","t","e","d"," ","s","u","m","m","a","r","y",".">>

\* the exceptions that derive from Exception
ExceptionClasses == {"RuntimeError", "IndexError", "KeyError", "TypeError", "ValueError"}

\* a variant: except RuntimeError as e:
IsCaught_RuntimeErrorOnly(outcome) == outcome = "RuntimeError"

\* except Exception as e:
IsCaught(outcome) == outcome \in ExceptionClasses

\* a variant: if not full_article_text
IsTooShort_EmptyOnly(text) == text = <<>>

\* if not full_article_text or len(full_article_text) < min_summary_input_length
IsTooShort(text) == text = <<>> \/ Len(text) < min_summary_input_length

\* where the call goes once the text is extracted
TierFor(text, pipeline) ==
    IF IsTooShort(text) THEN "Fallback"
    ELSE IF pipeline # "None" THEN "Abstractive"
    ELSE "Fallback"

\* a variant: a failed summarizer is tried again
AfterFailure_Retry(outcome) == IF outcome = "RuntimeError" THEN "NotStarted" ELSE "Fallback"

\* where the call goes when the summarizer fails
AfterFailure(outcome) == IF IsCaught(outcome) THEN "Fallback" ELSE "Raised"

(***************************************************************************)
(* fetch_page_content, as its callers see it.                              *)
(***************************************************************************)
\* what requests.get and raise_for_status can do
FetchOutcomes == {"page", "Timeout", "HTTPError", "ConnectionError", "MissingSchema"}

\* the exceptions that derive from requests.exceptions.RequestException
RequestExceptions == {"Timeout", "HTTPError", "ConnectionError", "MissingSchema"}

\* a variant: except requests.exceptions.ConnectionError as e: ... return None
ReturnsNone_ConnectionErrorOnly(outcome) == outcome = "ConnectionError"

\* except requests.exceptions.RequestException as e: ... return None
ReturnsNone(outcome) == outcome \in RequestExceptions

\* requests.get refuses a URL without a scheme (MissingSchema)
CanFetch(url, outcome) == IF HasScheme(url) THEN outcome # "MissingSchema" ELSE outcome = "MissingSchema"

(***************************************************************************)
(* State.                                                                  *)
(***************************************************************************)
VARIABLES
    summarizer_pipeline,  \* "None" when its initialization failed
    site,                 \* the article pages a fetch can return: those of up to so many blocks
    listing,              \* the listing page as fetched
    target_date,          \* target_date_str
    articles,             \* the result of extract_articles_by_date
    pc,                   \* where main is
    idx,                  \* the article main is at
    output,               \* what main printed: title, url and the summary's tier of each article
    phase,                \* where the call of get_article_summary is
    page,                 \* the page fetched by the call
    content_container,    \* its content region (0: None)
    full_article_text,
    summary,              \* the value returned
    method,               \* the tier that produced it
    abstractive_calls,    \* invocations of summarizer_pipeline in the call
    fallback_runs         \* runs of the extractive fallback in the call

vars == <<summarizer_pipeline, site, listing, target_date, articles, pc, idx, output, phase,
          page, content_container, full_article_text, summary, method, abstractive_calls,
          fallback_runs>>

callVars == <<phase, page, content_container, full_article_text, summary, method,
              abstractive_calls, fallback_runs>>

mainVars == <<listing, target_date, articles, pc, idx, output>>

CallEntry ==
    /\ page = NoPage
    /\ content_container = 0
    /\ full_article_text = <<>>
    /\ summary = <<>>
    /\ method = "none"
    /\ abstractive_calls = 0
    /\ fallback_runs = 0


(***************************************************************************)
(* get_article_summary(article_url), for the article main is at.           *)
(***************************************************************************)
article_url == articles[idx].url

\* the fetch fails: the sentinel is returned, unless the exception escapes
FetchFails ==
    /\ phase = "NotStarted"
    /\ \E outcome \in FetchOutcomes \ {"page"} :
        /\ CanFetch(article_url, outcome)
        /\ IF ReturnsNone(outcome)
           THEN /\ phase' = "Done"
                /\ summary' = NoFetchSummary
           ELSE /\ phase' = "Raised"
                /\ summary' = summary
    /\ UNCHANGED <<page, content_container, full_article_text, method, abstractive_calls,
                   fallback_runs>>
    /\ UNCHANGED <<summarizer_pipeline, site>>
    /\ UNCHANGED mainVars

\* the page is fetched, script and style are removed, the content region is chosen, the
\* text is extracted and the tier is decided; the summarizer is invoked when it is chosen
FetchAndExtract ==
    /\ phase = "NotStarted"
    /\ CanFetch(article_url, "page")
    /\ \E fetched \in Pages(site) :
        /\ page' = fetched
        /\ \E extracted \in {Extracted(fetched)} :
              /\ content_container' = extracted.container
              /\ full_article_text' = extracted.text
              /\ phase' = TierFor(extracted.text, summarizer_pipeline)
              /\ abstractive_calls' =
                     IF TierFor(extracted.text, summarizer_pipeline) = "Abstractive"
                     THEN abstractive_calls + 1 ELSE abstractive_calls
    /\ UNCHANGED <<summary, method, fallback_runs>>
    /\ UNCHANGED <<summarizer_pipeline, site>>
    /\ UNCHANGED mainVars

\* the summarizer returns and its result is indexed: return generated_summary
SummarizerReturns ==
    /\ phase = "Abstractive"
    /\ phase' = "Done"
    /\ summary' = GeneratedSummary
    /\ method' = "abstractive"
    /\ UNCHANGED <<page, content_container, full_article_text, abstractive_calls, fallback_runs>>
    /\ UNCHANGED <<summarizer_pipeline, site>>
    /\ UNCHANGED mainVars

\* the summarizer raises, or its result cannot be indexed
SummarizerFails ==
    /\ phase = "Abstractive"
    /\ \E outcome \in SummarizerOutcomes \ {"summary_text"} :
        phase' = AfterFailure(outcome)
    /\ UNCHANGED <<page, content_container, full_article_text, summary, method,
                   abstractive_calls, fallback_runs>>
    /\ UNCHANGED <<summarizer_pipeline, site>>
    /\ UNCHANGED mainVars

\* one of the three fallback blocks runs, and returns
RunFallback ==
    /\ phase = "Fallback"
    /\ phase' = "Done"
    /\ summary' = FallbackSummary(page)
    /\ method' = "extractive"
    /\ fallback_runs' = fallback_runs + 1
    /\ UNCHANGED <<page, content_container, full_article_text, abstractive_calls>>
    /\ UNCHANGED <<summarizer_pipeline, site>>
    /\ UNCHANGED mainVars

(***************************************************************************)
(* main.                                                                   *)
(***************************************************************************)
\* articles = extract_articles_by_date(main_cisa_url, target_date); if articles: ...
ListArticles ==
    /\ pc = "start"
    /\ articles' = ExtractArticlesByDate(main_cisa_url, target_date, listing)
    /\ IF ExtractArticlesByDate(main_cisa_url, target_date, listing) # <<>>
       THEN pc' = "loop" /\ idx' = 1 /\ phase' = "NotStarted"
       ELSE pc' = "done" /\ idx' = 0 /\ phase' = "Idle"
    /\ UNCHANGED <<page, content_container, full_article_text, summary, method,
                   abstractive_calls, fallback_runs>>
    /\ UNCHANGED <<summarizer_pipeline, site, listing, target_date, output>>

\* the call has returned: the article is printed and the loop goes on
PrintSummary ==
    /\ pc = "loop"
    /\ phase = "Done"
    /\ output' = Append(output, [title |-> articles[idx].title, url |-> articles[idx].url,
                                 method |-> method])
    /\ IF idx < Len(articles)
       THEN pc' = pc /\ idx' = idx + 1 /\ phase' = "NotStarted"
       ELSE pc' = "done" /\ idx' = idx /\ phase' = "Idle"
    /\ page' = NoPage
    /\ content_container' = 0
    /\ full_article_text' = <<>>
    /\ summary' = <<>>
    /\ method' = "none"
    /\ abstractive_calls' = 0
    /\ fallback_runs' = 0
    /\ UNCHANGED <<summarizer_pipeline, site, listing, target_date, articles>>

(***************************************************************************)
(* Specifications.                                                         *)
(***************************************************************************)
\* the import of the module: the pipeline is built, or the except branch sets it to None
InitPipeline == summarizer_pipeline \in {"pipeline", "None"}

\* extract_articles_by_date on every listing page and target date
InitLister ==
    /\ summarizer_pipeline = "None"
    /\ site = 0
    /\ listing \in Listings(Teasers, MaxItems)
    /\ target_date \in TargetDates
    /\ articles = <<>>
    /\ pc = "start"
    /\ idx = 0
    /\ output = <<>>
    /\ phase = "Idle"
    /\ CallEntry

ListerNext == ListArticles

SpecLister == InitLister /\ [][ListerNext]_vars

\* one call of get_article_summary, on a URL that extract_articles_by_date can return
InitSummary ==
    /\ InitPipeline
    /\ site = MaxBlocks
    /\ listing = [ok |-> TRUE, items |-> <<>>]
    /\ target_date = <<"June", " ", "10", ",", " ", "2025">>
    /\ \E h \in Hrefs : articles = <<[title |-> 1, url |-> ArticleUrl(main_cisa_url, h)]>>
    /\ pc = "call"
    /\ idx = 1
    /\ output = <<>>
    /\ phase = "NotStarted"
    /\ CallEntry

SummaryNext ==
    \/ FetchFails
    \/ FetchAndExtract
    \/ SummarizerReturns
    \/ SummarizerFails
    \/ RunFallback

SpecSummary == InitSummary /\ [][SummaryNext]_vars /\ WF_vars(SummaryNext)

\* a run of main
Init ==
    /\ InitPipeline
    /\ site = MaxRunBlocks
    /\ listing \in Listings(RunTeasers, MaxArticles)
    /\ target_date = <<"June", " ", "10", ",", " ", "2025">>
    /\ articles = <<>>
    /\ pc = "start"
    /\ idx = 0
    /\ output = <<>>
    /\ phase = "Idle"
    /\ CallEntry

Next ==
    \/ ListArticles
    \/ FetchFails
    \/ FetchAndExtract
    \/ SummarizerReturns
    \/ SummarizerFails
    \/ RunFallback
    \/ PrintSummary

Spec == Init /\ [][Next]_vars /\ WF_vars(Next)

(***************************************************************************)
(* What the claims speak of.                                               *)
(***************************************************************************)
\* the call has fetched its page
Fetched == page # NoPage

\* the parsed page of the call, script and style removed
Soup == Decompose(Parse(page))

\* the texts of the paragraphs the fallback reads, the empty ones left out
FallbackParagraphs == SelectSeq(ParagraphTexts(Soup, content_container), LAMBDA s : s # <<>>)

RECURSIVE TotalLen(_)
TotalLen(texts) == IF texts = <<>> THEN 0 ELSE Len(Head(texts)) + TotalLen(Tail(texts))

\* the call returned from an extractive fallback block
ReturnedExtractive == phase = "Done" /\ method = "extractive"

\* the first paragraph that does not fit in what is left of the budget
CutIndex(texts) ==
    CHOOSE k \in 1..Len(texts) :
        /\ TotalLen(SubSeq(texts, 1, k)) >= max_chars
        /\ TotalLen(SubSeq(texts, 1, k - 1)) < max_chars

\* the summary has a truncated paragraph
IsTruncated == ReturnedExtractive /\ TotalLen(FallbackParagraphs) >= max_chars

\* the paragraph that was truncated
CutParagraph == FallbackParagraphs[CutIndex(FallbackParagraphs)]

\* what was emitted of it, the marker left out
Fragment ==
    LET whole == SubSeq(FallbackParagraphs, 1, CutIndex(FallbackParagraphs) - 1)
        before == IF whole = <<>> THEN 0 ELSE Len(Join(whole, <<" ">>)) + 1
    IN  SubSeq(summary, before + 1, Len(summary) - Len(Ellipsis))

\* s cut after n characters is cut between words
IsWordBoundary(s, n) == n = Len(s) \/ (n < Len(s) /\ s[n + 1] \in Whitespace)

\* the text-bearing elements of the content region that the boilerplate filter flags
Flagged ==
    {e \in Range(FindAll(Soup, content_container, TextTags)) :
        IsIrrelevantParent(Soup, e) \/ HasBoilerplateText(GetText(Soup, e))}

\* the text of the whole page that survives the boilerplate filter
WholePageText == Strip(AppendKept(Soup, FindAll(Soup, 0, TextTags), 1))

\* the teaser an article was made from
TeaserOf(article) == listing.items[article.title]

\* the teaser has an article in the result
IsListed(k) == \E j \in 1..Len(articles) : articles[j].title = k

\* extract_articles_by_date has returned
Listed == pc # "start"

(***************************************************************************)
(* The claims.                                                             *)
(***************************************************************************)
\* C1: when the extracted text is shorter than 100 characters (empty included), the
\* abstractive summarizer is not invoked in the call, available or not, and the value
\* returned comes from the extractive fallback.
C1_ShortTextNeverAbstractive ==
    (Fetched /\ Len(full_article_text) < min_summary_input_length) =>
        /\ abstractive_calls = 0
        /\ phase \in {"Fallback", "Done"}
        /\ phase = "Done" =>
              /\ method = "extractive"
              /\ fallback_runs = 1
              /\ summary # GeneratedSummary
              /\ summary # <<>>

C1_Witness ==
    /\ Fetched
    /\ Len(full_article_text) \in 1..(min_summary_input_length - 1)
    /\ summarizer_pipeline = "pipeline"
    /\ ReturnedExtractive

\* C2: when the extracted text has at least 100 characters and the summarizer fails, the
\* failure does not leave the call: the call returns the extractive fallback's result,
\* which is a non-empty string.
C2_FailureFallsBack ==
    (abstractive_calls >= 1 /\ phase # "Abstractive" /\ method # "abstractive") =>
        /\ Len(full_article_text) >= min_summary_input_length
        /\ phase \in {"Fallback", "Done"}
        /\ phase = "Done" =>
              /\ method = "extractive"
              /\ fallback_runs = 1
              /\ Len(summary) > 0

C2_Witness ==
    /\ abstractive_calls = 1
    /\ Len(full_article_text) >= min_summary_input_length
    /\ ReturnedExtractive
    /\ summary = NoFallbackSummary

\* C3: for paragraphs whose concatenated length exceeds the 500-character budget, the
\* extractive summary is at most 500 characters plus the marker "..." long (the spaces
\* between the paragraphs counted), and it ends with the marker.
C3_SummaryWithinBudget ==
    (ReturnedExtractive /\ TotalLen(FallbackParagraphs) > max_chars) =>
        /\ Len(summary) <= max_chars + Len(Ellipsis)
        /\ EndsWith(summary, Ellipsis)

\* C9: the paragraph that does not fit is cut at the last whitespace at or before the cut
\* point and followed by "..."; what is emitted of it ends at a word boundary of the
\* paragraph, also when the paragraph has no whitespace before the cut point.
C9_CutAtWordBoundary ==
    IsTruncated =>
        /\ EndsWith(summary, Ellipsis)
        /\ Fragment = Prefix(CutParagraph, Len(Fragment))
        /\ IsWordBoundary(CutParagraph, Len(Fragment))

\* C5: the text of an element of the content region that the boilerplate filter flags is
\* not part of the extracted text, also when the element lies within an element that is kept.
C5_NoFlaggedTextInBody ==
    Fetched =>
        \A e \in Flagged : TextNodesOf(Soup, e) \cap ExtractSources(Soup, content_container) = {}

C4_DateFilterExact ==
    (Listed /\ listing.ok) =>
        /\ \A j \in 1..Len(articles) :
              /\ articles[j].title \in 1..Len(listing.items)
              /\ TeaserOf(articles[j]).has_link
        /\ \A j \in 1..Len(articles) : \A m \in 1..Len(articles) :
              j < m => articles[j].title < articles[m].title
        /\ \A k \in 1..Len(listing.items) :
              LET item == listing.items[k]
                  iso == FromIsoFormatDate(ReplaceZ(item.datetime))
                  date == IF iso # <<>> THEN iso ELSE StrptimeAbbreviated(Strip(item.text))
              IN  item.has_link =>
                     (IsListed(k) <=>
                         (item.has_time /\ date # <<>> /\ date = StrptimeFull(target_date)))

C4_Witness ==
    /\ Listed
    /\ Len(articles) = 2
    /\ FromIsoFormatDate(ReplaceZ(TeaserOf(articles[1]).datetime)) = <<>>
    /\ TeaserOf(articles[1]).datetime # <<>>
    /\ FromIsoFormatDate(ReplaceZ(TeaserOf(articles[2]).datetime)) # <<>>

\* C7: every article returned has an absolute URL: the href of its teaser resolved against
\* the URL of the listing page, also for a relative href that begins with "http".
C7_UrlAbsolute ==
    Listed =>
        \A j \in 1..Len(articles) :
            /\ HasScheme(articles[j].url)
            /\ articles[j].url = UrlJoin(main_cisa_url, TeaserOf(articles[j]).href)

\* C8: whatever happens to each article (the fetch fails, no content region, the
\* summarizer is missing, fails or succeeds, no paragraph), main handles every listed
\* article once, in the order of the listing, with one summary each, and ends.
C8_EveryArticleOnce ==
    /\ [](phase # "Raised")
    /\ []((pc = "loop" /\ phase = "Done") => Len(summary) > 0)
    /\ [](pc = "loop" =>
            /\ idx \in 1..Len(articles)
            /\ Len(output) = idx - 1)
    /\ [](\A k \in 1..Len(output) :
            output[k].title = articles[k].title /\ output[k].url = articles[k].url)
    /\ [](pc = "done" => Len(output) = Len(articles))
    /\ <>(pc = "done")

C8_Witness ==
    /\ pc = "done"
    /\ Len(output) = 2
    /\ output[1].method = "none"
    /\ output[2].method = "abstractive"

\* the steps a call can take, as the claim lists them
ClaimedSteps ==
    { <<"NotStarted", "Abstractive">>, <<"Abstractive", "Fallback">>, <<"Fallback", "Done">>,
      <<"NotStarted", "Fallback">>, <<"Abstractive", "Done">> }

\* C10: a call goes NotStarted -> Abstractive -> Fallback -> Done, NotStarted -> Fallback ->
\* Done or NotStarted -> Abstractive -> Done: the summarizer is invoked at most once, the
\* fallback runs at most once, never the summarizer after the fallback, and the call ends.
C10_TwoTierSteps ==
    [][phase' # phase => <<phase, phase'>> \in ClaimedSteps]_vars

\* C10, amended: as above, or NotStarted -> Done when the page cannot be fetched.
C10_TwoTierStepsOrNoFetch ==
    /\ [][phase' # phase =>
            \/ <<phase, phase'>> \in ClaimedSteps
            \/ (<<phase, phase'>> = <<"NotStarted", "Done">> /\ ~Fetched' /\ method' = "none")]_vars
    /\ [][(phase \in {"Fallback", "Done"}) => abstractive_calls' = abstractive_calls]_vars
    /\ [](abstractive_calls <= 1 /\ fallback_runs <= 1)
    /\ <>(phase = "Done")

C10_Witness ==
    /\ phase = "Done"
    /\ abstractive_calls = 1
    /\ fallback_runs = 1

====
